---- MODULE Spec2Model ----
(***************************************************************************)
(* The scrape-reconcile-notify pipeline of InstaParser.                    *)
(*                                                                         *)
(* A run (app/worker.py, scrape_instagram_posts) scrapes the profile, then *)
(* for every extracted post looks the shortcode up and creates or updates  *)
(* the row, then lets the TelegramNotifier deliver and mark every row      *)
(* that has a target hashtag and was not notified yet.  The store is the   *)
(* posts table of app/models.py, a set of rows.  Two triggers start runs:  *)
(* the beat schedule and the /scrape endpoint of app/main.py.              *)
(***************************************************************************)
EXTENDS Integers, Sequences, FiniteSets, TLC

(***************************************************************************)
(* Bounds of the model.                                                    *)
(***************************************************************************)
\* max_posts of InstagramScraper (a configuration value, 10 by default)
MaxPosts == 2
\* the wall clock stops advancing here
MaxClock == 1
\* the delivery and mark counters saturate here
MaxCount == 2
\* the most anchors a profile page shows when scrape_posts is called on
\* its own
MaxLinks == 4
\* the longest text a hashtag check is called with
MaxText == 4
\* the longest numeric text of a page
MaxNum == 4

(***************************************************************************)
(* URLs are sequences of tokens; "/p/" is the post-path marker and "/" a   *)
(* trailing separator.  UrlA and UrlA2 are two distinct links to the same  *)
(* post (the second one carries the account name in its path).             *)
(***************************************************************************)
UrlA == <<"ig", "/p/", "A", "/">>
UrlA2 == <<"ig", "user", "/p/", "A", "/">>
UrlB == <<"ig", "/p/", "B", "/">>
Urls == {UrlA, UrlA2, UrlB}

\* The hrefs of the anchors a profile page may show, in document order: no
\* post, one post, two posts, one post under both of its links, a link that
\* is shown twice, and more links than max_posts.
Profiles ==
    {<<>>, <<UrlA>>, <<UrlB>>, <<UrlA, UrlB>>, <<UrlA2, UrlA>>, <<UrlB, UrlB, UrlA2>>,
     <<UrlB, UrlA, UrlA2>>}

\* the profile pages of the overlapping specification: one post, under one
\* or both of its links
RacingProfiles == {<<UrlA>>, <<UrlA2, UrlA>>}

\* the profile pages of the specification with fairness: no post, and a
\* post behind a newer one
LiveProfiles == {<<>>, <<UrlB, UrlA>>}

\* the triggers of a run: the beat schedule and the manual /scrape endpoint
Runs == {"beat", "manual"}

\* What a visit of a post page can show: the page did not load in time, or
\* it loaded and the extraction found these values (PagePlain: a page on
\* which no selector and no pattern matched).
PageTimeout == [loaded |-> FALSE, caption |-> "", likes |-> 0, comments |-> 0, tagged |-> FALSE]
PageTagged == [loaded |-> TRUE, caption |-> "c1", likes |-> 100, comments |-> 10, tagged |-> TRUE]
PagePlain == [loaded |-> TRUE, caption |-> "", likes |-> 0, comments |-> 0, tagged |-> FALSE]
Pages == {PageTimeout, PageTagged, PagePlain}

VARIABLES
    store,       \* the posts table: a set of rows
    clock,       \* datetime.now()
    env,         \* which of TELEGRAM_BOT_TOKEN and TELEGRAM_CHAT_ID are set
    run,         \* per trigger: the position and the locals of its run
    delivered,   \* per post id: messages the channel delivered (saturating)
    marks,       \* per post id: successful mark_post_as_notified calls (saturating)
    call         \* a call of one function of the scraper: its arguments and result

vars == <<store, clock, env, run, delivered, marks, call>>

(***************************************************************************)
(* Helpers on sequences.                                                   *)
(***************************************************************************)
Range(s) == {s[j] : j \in 1..Len(s)}

Min(a, b) == IF a < b THEN a ELSE b

\* every ordering of the finite set S
Orderings(S) == {s \in [1..Cardinality(S) -> S] : Range(s) = S}

\* index of the first token equal to t in s, or 0
RECURSIVE IndexFrom(_, _, _)
IndexFrom(s, t, j) ==
    IF j > Len(s) THEN 0
    ELSE IF s[j] = t THEN j
    ELSE IndexFrom(s, t, j + 1)

\* str.rstrip("/")
RECURSIVE RStrip(_)
RStrip(s) ==
    IF s # <<>> /\ s[Len(s)] = "/" THEN RStrip(SubSeq(s, 1, Len(s) - 1)) ELSE s

(***************************************************************************)
(* Extraction (app/scraper.py).                                            *)
(***************************************************************************)
\* post_url.split("/p/")[1].rstrip("/")
Shortcode(url) ==
    LET first == IndexFrom(url, "/p/", 1)
        rest == SubSeq(url, first + 1, Len(url))
        nxt == IndexFrom(rest, "/p/", 1)
        part == IF nxt = 0 THEN rest ELSE SubSeq(rest, 1, nxt - 1)
    IN RStrip(part)

\* f"post_{shortcode}"
PostId(shortcode) == <<"post_">> \o shortcode

\* the href loop of _get_post_urls: keep the first occurrence of every href
RECURSIVE Dedup(_, _)
Dedup(hrefs, acc) ==
    IF hrefs = <<>> THEN acc
    ELSE IF Head(hrefs) \in Range(acc) THEN Dedup(Tail(hrefs), acc)
    ELSE Dedup(Tail(hrefs), Append(acc, Head(hrefs)))

GetPostUrls(hrefs) == Dedup(hrefs, <<>>)

\* _get_post_details: the defaults, which a timeout returns as they are,
\* overwritten by what the loaded page shows
GetPostDetails(url, page, now) ==
    LET shortcode == Shortcode(url)
        post_data == [id |-> PostId(shortcode),
                      shortcode |-> shortcode,
                      caption |-> "",
                      likes_count |-> 0,
                      comments_count |-> 0,
                      url |-> url,
                      has_target_hashtag |-> FALSE,
                      scraped_at |-> now]
    IN IF ~page.loaded THEN post_data
       ELSE [post_data EXCEPT !.caption = page.caption,
                              !.likes_count = page.likes,
                              !.comments_count = page.comments,
                              !.has_target_hashtag = page.tagged]

\* mutant: the slice post_urls[-self.max_posts:] keeps the last URLs
LastMax(urls) == SubSeq(urls, Len(urls) - Min(Len(urls), MaxPosts) + 1, Len(urls))

\* post_urls[:self.max_posts]
FirstMax(urls) == SubSeq(urls, 1, Min(Len(urls), MaxPosts))

\* scrape_posts: one post_data per URL of the prefix, in order
ScrapePosts(hrefs, pages, now) ==
    LET urls == FirstMax(GetPostUrls(hrefs))
    IN [j \in 1..Len(urls) |-> GetPostDetails(urls[j], pages[j], now)]

(***************************************************************************)
(* The store (app/models.py).                                              *)
(***************************************************************************)
\* db.query(Post).filter(Post.shortcode == shortcode).first(): the ids of
\* the row found, {} for None
get_post_by_shortcode(db, shortcode) ==
    LET found == {p \in db : p.shortcode = shortcode}
    IN IF found = {} THEN {} ELSE {(CHOOSE p \in found : TRUE).id}

\* mutant: a posts table without the primary key and the unique constraint
IntegrityErrorNever(db, post, post_data) == FALSE

\* Post.id is the primary key and Post.shortcode is unique: the INSERT
\* (post = {}) or the UPDATE of the row post is refused when another row has
\* that id or that shortcode
IntegrityError(db, post, post_data) ==
    \E p \in db : /\ p.id \notin post
                  /\ (p.id = post_data.id \/ p.shortcode = post_data.shortcode)

\* mutant: the notified column defaults to True
NewPostNotified(post_data, now) ==
    [id |-> post_data.id,
     shortcode |-> post_data.shortcode,
     caption |-> post_data.caption,
     likes_count |-> post_data.likes_count,
     comments_count |-> post_data.comments_count,
     url |-> post_data.url,
     has_target_hashtag |-> post_data.has_target_hashtag,
     notified |-> TRUE,
     scraped_at |-> post_data.scraped_at,
     created_at |-> now,
     updated_at |-> now]

\* Post(**post_data): the columns post_data gives, the defaults of the others
NewPost(post_data, now) ==
    [id |-> post_data.id,
     shortcode |-> post_data.shortcode,
     caption |-> post_data.caption,
     likes_count |-> post_data.likes_count,
     comments_count |-> post_data.comments_count,
     url |-> post_data.url,
     has_target_hashtag |-> post_data.has_target_hashtag,
     notified |-> FALSE,
     scraped_at |-> post_data.scraped_at,
     created_at |-> now,
     updated_at |-> now]

\* create_post: the table after the commit
create_post(db, post_data, now) == db \cup {NewPost(post_data, now)}

\* mutant: a hashtag once found is never cleared
SetAttrsSticky(post, post_data, now) ==
    [post EXCEPT !.id = post_data.id,
                 !.shortcode = post_data.shortcode,
                 !.caption = post_data.caption,
                 !.likes_count = post_data.likes_count,
                 !.comments_count = post_data.comments_count,
                 !.url = post_data.url,
                 !.has_target_hashtag = @ \/ post_data.has_target_hashtag,
                 !.scraped_at = post_data.scraped_at,
                 !.updated_at = now]

\* mutant: the counts are added to the stored ones instead of replacing them
SetAttrsAdding(post, post_data, now) ==
    [post EXCEPT !.id = post_data.id,
                 !.shortcode = post_data.shortcode,
                 !.caption = post_data.caption,
                 !.likes_count = @ + post_data.likes_count,
                 !.comments_count = @ + post_data.comments_count,
                 !.url = post_data.url,
                 !.has_target_hashtag = post_data.has_target_hashtag,
                 !.scraped_at = post_data.scraped_at,
                 !.updated_at = now]

\* setattr(post, key, value) for every key of post_data; onupdate refreshes
\* updated_at
SetAttrs(post, post_data, now) ==
    [post EXCEPT !.id = post_data.id,
                 !.shortcode = post_data.shortcode,
                 !.caption = post_data.caption,
                 !.likes_count = post_data.likes_count,
                 !.comments_count = post_data.comments_count,
                 !.url = post_data.url,
                 !.has_target_hashtag = post_data.has_target_hashtag,
                 !.scraped_at = post_data.scraped_at,
                 !.updated_at = now]

\* mutant: the row is replaced by a fresh Post(**post_data), whose notified
\* is the column default
update_post_rearm(db, post, post_data, now) ==
    {IF p.id = post THEN [NewPost(post_data, now) EXCEPT !.created_at = p.created_at]
                    ELSE p : p \in db}

\* mutant: the row is deleted and inserted again
update_post_recreate(db, post, post_data, now) ==
    {IF p.id = post THEN [NewPost(post_data, now) EXCEPT !.notified = p.notified]
                    ELSE p : p \in db}

\* update_post: the table after the commit; post is the id of the row
update_post(db, post, post_data, now) ==
    {IF p.id = post THEN SetAttrs(p, post_data, now) ELSE p : p \in db}

\* mutant: the filter on has_target_hashtag is missing
get_unnotified_posts_any(db) ==
    {p.id : p \in {q \in db : ~q.notified}}

\* mutant: only the rows that no run has updated since their insert are kept
get_unnotified_posts_fresh(db) ==
    {p.id : p \in {q \in db : /\ q.has_target_hashtag
                              /\ ~q.notified
                              /\ q.updated_at = q.created_at}}

\* get_unnotified_posts: the ids of the rows the filter keeps
get_unnotified_posts(db) ==
    {p.id : p \in {q \in db : q.has_target_hashtag /\ ~q.notified}}

\* mark_post_as_notified: the table after the commit
mark_post_as_notified(db, post, now) ==
    {IF p.id = post THEN [p EXCEPT !.notified = TRUE, !.updated_at = now] ELSE p : p \in db}

(***************************************************************************)
(* The runs (app/worker.py, app/notifications.py).                         *)
(***************************************************************************)
\* the body of the reconcile loop after the lookup: update the row found,
\* or create one
Upsert(db, existing_post, post_data, now) ==
    IF existing_post # {}
    THEN update_post(db, CHOOSE p \in existing_post : TRUE, post_data, now)
    ELSE create_post(db, post_data, now)

\* mutant: the token alone makes a bot
BotTokenOnly(token, chat_id) == token

\* TelegramNotifier.__init__: self.bot is a telegram.Bot when the token and
\* the chat id are both given, None otherwise
Bot(token, chat_id) == token /\ chat_id

\* The locals of a run.  posts, k, existing: the reconcile loop of the task.
\* sel, i, notified_posts: the loop of notify_new_posts.  sent and failed
\* record for which posts of this run send_message returned and raised,
\* stalled at which positions of posts the page did not load in time.
Idle ==
    [pc |-> "idle", posts |-> <<>>, stalled |-> {}, k |-> 1, existing |-> {},
     sel |-> <<>>, i |-> 1, notified_posts |-> <<>>, sent |-> {}, failed |-> {},
     outcome |-> "none"]

\* no function of the scraper is being called on its own
NoCall == [fn |-> "none", done |-> FALSE]

\* the pipeline before its first run
NoRun ==
    /\ store = {}
    /\ clock = 0
    /\ run = [r \in Runs |-> Idle]
    /\ delivered = [id \in {PostId(Shortcode(u)) : u \in Urls} |-> 0]
    /\ marks = [id \in {PostId(Shortcode(u)) : u \in Urls} |-> 0]

Init ==
    /\ NoRun
    /\ env \in [token : BOOLEAN, chat_id : BOOLEAN]
    /\ call = NoCall

\* time passes between runs
Tick ==
    /\ clock < MaxClock
    /\ \A r \in Runs : run[r].pc = "idle"
    /\ clock' = clock + 1
    /\ UNCHANGED <<store, env, run, delivered, marks, call>>

\* the task starts: scraper.scrape_posts() returns the extracted posts, or
\* the empty list when the profile page could not be fetched
Scrape(r, profiles) ==
    /\ run[r].pc = "idle"
    /\ \E fetched \in BOOLEAN, hrefs \in profiles :
         \E pages \in [1..Len(FirstMax(GetPostUrls(hrefs))) -> Pages] :
            run' = [run EXCEPT ![r] =
                       IF fetched
                       THEN [Idle EXCEPT !.pc = "reconcile",
                                         !.posts = ScrapePosts(hrefs, pages, clock),
                                         !.stalled = {j \in DOMAIN pages : ~pages[j].loaded}]
                       ELSE [Idle EXCEPT !.pc = "reconcile"]]
    /\ UNCHANGED <<store, clock, env, delivered, marks, call>>

\* the scheduler serializes the runs
StartRun(r) ==
    /\ \A o \in Runs : run[o].pc = "idle"
    /\ Scrape(r, Profiles)

\* nothing keeps a trigger from starting a run while the other one runs
StartRacing(r) == Scrape(r, RacingProfiles)

\* existing_post = get_post_by_shortcode(db, post_data["shortcode"])
Lookup(r) ==
    /\ run[r].pc = "reconcile"
    /\ run[r].k <= Len(run[r].posts)
    /\ run' = [run EXCEPT ![r].existing =
                              get_post_by_shortcode(store, run[r].posts[run[r].k].shortcode),
                          ![r].pc = "write"]
    /\ UNCHANGED <<store, clock, env, delivered, marks, call>>

\* except Exception as e: logger.error(...): the clause logs and does not
\* raise again, so no outcome of the task body leaves the task as an exception
Propagates(outcome) == FALSE

\* the /scrape endpoint: success when apply() returned, HTTP 500 when the
\* exception of the task reached it
Response(rec) == IF Propagates(rec.outcome) THEN "error" ELSE "success"

\* the exception of a store write reaches the task's except clause
RunFails(r) ==
    run' = [run EXCEPT ![r].pc = "done", ![r].outcome = "error", ![r].stalled = {}]

\* mutant: the failed write takes the rows of the earlier records of the run
\* out of the store with it
WriteRollsBack(r) ==
    /\ run[r].pc = "write"
    /\ LET post_data == run[r].posts[run[r].k]
           earlier == {run[r].posts[j].id : j \in 1..(run[r].k - 1)}
       IN \E commits \in BOOLEAN :
            IF commits /\ ~IntegrityError(store, run[r].existing, post_data)
            THEN /\ store' = Upsert(store, run[r].existing, post_data, clock)
                 /\ run' = [run EXCEPT ![r].pc = "reconcile", ![r].k = run[r].k + 1,
                                         ![r].stalled = @ \ {run[r].k}]
            ELSE /\ RunFails(r)
                 /\ store' = {p \in store : p.id \notin earlier}
    /\ UNCHANGED <<clock, env, delivered, marks, call>>

\* update_post(db, existing_post, post_data) or create_post(db, post_data)
Write(r) ==
    /\ run[r].pc = "write"
    /\ LET post_data == run[r].posts[run[r].k]
       IN \E commits \in BOOLEAN :
            IF commits /\ ~IntegrityError(store, run[r].existing, post_data)
            THEN /\ store' = Upsert(store, run[r].existing, post_data, clock)
                 /\ run' = [run EXCEPT ![r].pc = "reconcile", ![r].k = run[r].k + 1,
                                         ![r].stalled = @ \ {run[r].k}]
            ELSE /\ RunFails(r)
                 /\ UNCHANGED store
    /\ UNCHANGED <<clock, env, delivered, marks, call>>

\* mutant: the notifier is called inside the reconcile loop and the task
\* returns after it
NotifyEarly(r) ==
    /\ run[r].pc = "reconcile"
    /\ IF ~Bot(env.token, env.chat_id) \/ get_unnotified_posts(store) = {}
       THEN run' = [run EXCEPT ![r].pc = "done", ![r].outcome = "completed",
                               ![r].existing = {}, ![r].stalled = {}]
       ELSE \E order \in Orderings(get_unnotified_posts(store)) :
              run' = [run EXCEPT ![r].pc = "send", ![r].sel = order, ![r].i = 1,
                                 ![r].existing = {}, ![r].stalled = {}]
    /\ UNCHANGED <<store, clock, env, delivered, marks, call>>

\* mutant: the notifier leaves out the rows that another run has selected
\* and not yet processed
NotifyExclusive(r) ==
    /\ run[r].pc = "reconcile"
    /\ run[r].k > Len(run[r].posts)
    /\ LET held == UNION {{run[o].sel[j] : j \in run[o].i..Len(run[o].sel)} :
                            o \in {o \in Runs : o # r /\ run[o].pc \in {"send", "mark"}}}
           free == get_unnotified_posts(store) \ held
       IN IF ~Bot(env.token, env.chat_id) \/ free = {}
          THEN run' = [run EXCEPT ![r].pc = "done", ![r].outcome = "completed",
                                  ![r].existing = {}]
          ELSE \E order \in Orderings(free) :
                 run' = [run EXCEPT ![r].pc = "send", ![r].sel = order, ![r].i = 1,
                                    ![r].existing = {}]
    /\ UNCHANGED <<store, clock, env, delivered, marks, call>>

\* notifier.notify_new_posts(db) up to the loop
NotifyStart(r) ==
    /\ run[r].pc = "reconcile"
    /\ run[r].k > Len(run[r].posts)
    /\ IF ~Bot(env.token, env.chat_id) \/ get_unnotified_posts(store) = {}
       THEN run' = [run EXCEPT ![r].pc = "done", ![r].outcome = "completed",
                               ![r].existing = {}]
       ELSE \E order \in Orderings(get_unnotified_posts(store)) :
              run' = [run EXCEPT ![r].pc = "send", ![r].sel = order, ![r].i = 1,
                                 ![r].existing = {}]
    /\ UNCHANGED <<store, clock, env, delivered, marks, call>>

\* the for loop moves to the next post, or notify_new_posts returns and
\* the task completes
NextPost(rec) ==
    IF rec.i + 1 > Len(rec.sel)
    THEN [rec EXCEPT !.i = rec.i + 1, !.pc = "done", !.outcome = "completed"]
    ELSE [rec EXCEPT !.i = rec.i + 1, !.pc = "send"]

\* mutant: the try statement encloses the loop, so the first exception ends it
CaughtEndsLoop(rec) ==
    [rec EXCEPT !.i = Len(rec.sel) + 1, !.pc = "done", !.outcome = "completed"]

\* except Exception inside the loop body: the error is logged and the loop
\* goes on
Caught(rec) == NextPost(rec)

\* self.bot.send_message(...): delivered, or an exception the loop catches
Send(r) ==
    /\ run[r].pc = "send"
    /\ LET post == run[r].sel[run[r].i]
       IN \E sent \in BOOLEAN :
            IF sent
            THEN /\ delivered' = [delivered EXCEPT ![post] = Min(@ + 1, MaxCount)]
                 /\ run' = [run EXCEPT ![r].pc = "mark", ![r].sent = @ \cup {post}]
            ELSE /\ run' = [run EXCEPT ![r] =
                               Caught([run[r] EXCEPT !.failed = @ \cup {post}])]
                 /\ UNCHANGED delivered
    /\ UNCHANGED <<store, clock, env, marks, call>>

\* mark_post_as_notified(db, post); notified_posts.append(post)
Mark(r) ==
    /\ run[r].pc = "mark"
    /\ LET post == run[r].sel[run[r].i]
       IN \E commits \in BOOLEAN :
            IF commits
            THEN /\ store' = mark_post_as_notified(store, post, clock)
                 /\ marks' = [marks EXCEPT ![post] = Min(@ + 1, MaxCount)]
                 /\ run' = [run EXCEPT ![r] =
                               NextPost([run[r] EXCEPT !.notified_posts = Append(@, post)])]
            ELSE /\ run' = [run EXCEPT ![r] = Caught(run[r])]
                 /\ UNCHANGED <<store, marks>>
    /\ UNCHANGED <<clock, env, delivered, call>>

\* finally: db.close(); the task returns
Finish(r) ==
    /\ run[r].pc = "done"
    /\ run' = [run EXCEPT ![r] = Idle]
    /\ UNCHANGED <<store, clock, env, delivered, marks, call>>

Next ==
    \/ Tick
    \/ \E r \in {"beat"} : StartRun(r)
    \/ \E r \in {"beat"} : Lookup(r)
    \/ \E r \in {"beat"} : Write(r)
    \/ \E r \in {"beat"} : NotifyStart(r)
    \/ \E r \in {"beat"} : Send(r)
    \/ \E r \in {"beat"} : Mark(r)
    \/ \E r \in {"beat"} : Finish(r)

\* Runs one after the other, as the scheduler is assumed to serialize them.
\* A serialized run behaves the same whichever trigger started it, so the
\* serialized specification starts them all from the beat schedule.
Spec == Init /\ [][Next]_vars

NextOverlap ==
    \/ Tick
    \/ \E r \in Runs : StartRacing(r)
    \/ \E r \in Runs : Lookup(r)
    \/ \E r \in Runs : Write(r)
    \/ \E r \in Runs : NotifyStart(r)
    \/ \E r \in Runs : Send(r)
    \/ \E r \in Runs : Mark(r)
    \/ \E r \in Runs : Finish(r)

\* the beat schedule and a manual trigger may overlap
SpecOverlap == Init /\ [][NextOverlap]_vars

\* a run of the beat schedule on one of the pages of LiveProfiles
StartLive(r) ==
    /\ \A o \in Runs : run[o].pc = "idle"
    /\ Scrape(r, LiveProfiles)

NextLive ==
    \/ Tick
    \/ \E r \in {"beat"} : StartLive(r)
    \/ \E r \in {"beat"} : Lookup(r)
    \/ \E r \in {"beat"} : Write(r)
    \/ \E r \in {"beat"} : NotifyStart(r)
    \/ \E r \in {"beat"} : Send(r)
    \/ \E r \in {"beat"} : Mark(r)
    \/ \E r \in {"beat"} : Finish(r)

\* The beat schedule keeps starting the task (every SCRAPE_INTERVAL_MINUTES)
\* and a task that has started runs on to its end: each step that can be
\* taken is taken.  Nothing is assumed about whether a delivery or a store
\* write succeeds: those are outcomes of a step, not steps.
Fairness ==
    /\ WF_vars(StartLive("beat"))
    /\ WF_vars(Lookup("beat"))
    /\ WF_vars(Write("beat"))
    /\ WF_vars(NotifyStart("beat"))
    /\ WF_vars(Send("beat"))
    /\ WF_vars(Mark("beat"))
    /\ WF_vars(Finish("beat"))

\* serialized runs of the beat schedule that keep coming
SpecLive == Init /\ [][NextLive]_vars /\ Fairness

(***************************************************************************)
(* scrape_posts called on its own, on every profile page of up to MaxLinks *)
(* anchors.                                                                *)
(***************************************************************************)
\* a third post
UrlC == <<"ig", "/p/", "C", "/">>

\* the hrefs of a profile page, in document order
Hrefs == UNION {[1..n -> Urls \cup {UrlC}] : n \in 0..MaxLinks}

InitScrape ==
    /\ NoRun
    /\ env = [token |-> FALSE, chat_id |-> FALSE]
    /\ call \in UNION {[fn : {"scrape_posts"},
                         hrefs : {hrefs},
                         pages : [1..Len(FirstMax(GetPostUrls(hrefs))) -> Pages],
                         done : {FALSE},
                         ret : {<<>>}] : hrefs \in Hrefs}

\* scrape_posts returns the list of the extracted posts
CallScrapePosts ==
    /\ call.fn = "scrape_posts"
    /\ ~call.done
    /\ call' = [call EXCEPT !.done = TRUE,
                            !.ret = ScrapePosts(call.hrefs, call.pages, clock)]
    /\ UNCHANGED <<store, clock, env, run, delivered, marks>>

NextScrape == CallScrapePosts

SpecScrape == InitScrape /\ [][NextScrape]_vars

(***************************************************************************)
(* The functions of the scraper on text (app/scraper.py).  A text is a     *)
(* sequence of characters.                                                 *)
(***************************************************************************)
\* the characters of the texts a hashtag check is called with
Chars == {"#", " ", "a", "A", "b"}

\* the texts of at most n characters
TextsUpTo(n) == UNION {[1..m -> Chars] : m \in 0..n}

\* the hashtags_to_monitor lists a scraper is made with
RawTags == {<<"a">>, <<"A">>, <<"a", "b">>, <<"B">>}

\* the value None, which is no text
None == <<"None">>

\* \w of the re module
IsWord(c) == c \in {"a", "b", "k", "m", "A", "B", "K", "M", "_",
                    "0", "1", "2", "3", "4", "5", "6", "7", "8", "9"}

\* the lowercase of a character
LowerChar(c) ==
    CASE c = "A" -> "a"
      [] c = "B" -> "b"
      [] c = "K" -> "k"
      [] c = "M" -> "m"
      [] OTHER -> c

\* mutant: the text is compared as it is written
str_lower_identity(text) == text

\* str.lower()
str_lower(text) == [j \in 1..Len(text) |-> LowerChar(text[j])]

\* sub in text
Contains(sub, text) ==
    \E j \in 1..(Len(text) - Len(sub) + 1) : SubSeq(text, j, j + Len(sub) - 1) = sub

\* the last index of the longest run of word characters that starts at j
\* (j - 1 when there is none)
RECURSIVE WordRun(_, _)
WordRun(text, j) ==
    IF j <= Len(text) /\ IsWord(text[j]) THEN WordRun(text, j + 1) ELSE j - 1

\* mutant: the pattern #(\w+?) takes one character of every hashtag
FindHashtagsLazy(text, j) ==
    [n \in 1..Cardinality({m \in j..(Len(text) - 1) : text[m] = "#" /\ IsWord(text[m + 1])}) |->
        LET at == CHOOSE m \in j..(Len(text) - 1) :
                      /\ text[m] = "#" /\ IsWord(text[m + 1])
                      /\ Cardinality({o \in j..m : text[o] = "#" /\ IsWord(text[o + 1])}) = n
        IN <<text[at + 1]>>]

\* re.findall(r'#(\w+)', text) from index j on: the scan goes left to right
\* and every match takes the longest run of word characters
RECURSIVE FindHashtags(_, _)
FindHashtags(text, j) ==
    IF j > Len(text) THEN <<>>
    ELSE IF text[j] = "#" /\ WordRun(text, j + 1) > j
         THEN <<SubSeq(text, j + 1, WordRun(text, j + 1))>>
                  \o FindHashtags(text, WordRun(text, j + 1) + 1)
         ELSE FindHashtags(text, j + 1)

\* self.hashtags_to_monitor = list(set([tag.lower() for tag in ...]))
HashtagsToMonitor(hashtags_to_monitor) == {str_lower(tag) : tag \in hashtags_to_monitor}

\* method 1 of _contains_target_hashtag for one tag: the tag is among the
\* tokens of the text
TagInTokens(tag, text_lower) == tag \in Range(FindHashtags(text_lower, 1))

\* method 2 of _contains_target_hashtag for one hashtag: f"#{hashtag}" in
\* text_lower
TagInText(hashtag, text_lower) == Contains(<<"#">> \o hashtag, text_lower)

\* f" {hashtag} " in f" {text_lower} "
WordInText(hashtag, text_lower) ==
    Contains(<<" ">> \o hashtag \o <<" ">>, <<" ">> \o text_lower \o <<" ">>)

\* _contains_target_hashtag of a scraper whose hashtags_to_monitor is tags
contains_target_hashtag(text, tags) ==
    IF text = None \/ text = <<>> THEN FALSE
    ELSE LET text_lower == str_lower(text)
         IN \/ \E tag \in tags : TagInTokens(tag, text_lower)
            \/ \E hashtag \in tags :
                  TagInText(hashtag, text_lower) \/ WordInText(hashtag, text_lower)

\* a call of _contains_target_hashtag: the text, and the hashtags the
\* scraper was made with
InitMatcher ==
    /\ NoRun
    /\ env = [token |-> FALSE, chat_id |-> FALSE]
    /\ call \in [fn : {"contains_target_hashtag"},
                  text : TextsUpTo(MaxText) \cup {None},
                  hashtags : SUBSET RawTags,
                  done : {FALSE},
                  ret : {FALSE},
                  tokens : {{}},
                  literal : {{}}]

\* the call returns; tokens and literal record which monitored hashtags the
\* tokens of the text hold and which ones the text holds after a '#'
ContainsTargetHashtag ==
    /\ call.fn = "contains_target_hashtag"
    /\ ~call.done
    /\ LET tags == HashtagsToMonitor(call.hashtags)
           text_lower == IF call.text = None THEN <<>> ELSE str_lower(call.text)
       IN call' = [call EXCEPT !.done = TRUE,
                               !.ret = contains_target_hashtag(call.text, tags),
                               !.tokens = {t \in tags : TagInTokens(t, text_lower)},
                               !.literal = {t \in tags : TagInText(t, text_lower)}]
    /\ UNCHANGED <<store, clock, env, run, delivered, marks>>

NextMatcher == ContainsTargetHashtag

SpecMatcher == InitMatcher /\ [][NextMatcher]_vars

(***************************************************************************)
(* Python floats: IEEE 754 doubles.  A nonzero double is its 53 mantissa   *)
(* bits m, most significant first, and the exponent e of the first bit:    *)
(* its value is the sum of m[j] * 2^(e - j + 1).  Zero has no bits.        *)
(***************************************************************************)
Zero == [m |-> <<>>, e |-> 0]

\* the bits of a natural number, most significant first
RECURSIVE NatBits(_)
NatBits(n) == IF n = 0 THEN <<>> ELSE Append(NatBits(n \div 2), n % 2)

\* the natural number of a sequence of bits
RECURSIVE BitsNat(_)
BitsNat(bits) ==
    IF bits = <<>> THEN 0
    ELSE 2 * BitsNat(SubSeq(bits, 1, Len(bits) - 1)) + bits[Len(bits)]

\* bits + 1, one bit longer when every bit is 1
RECURSIVE Inc(_)
Inc(bits) ==
    IF bits = <<>> THEN <<1>>
    ELSE IF bits[Len(bits)] = 0 THEN [bits EXCEPT ![Len(bits)] = 1]
    ELSE Append(Inc(SubSeq(bits, 1, Len(bits) - 1)), 0)

\* round to nearest, ties to even: bits holds at least 54 bits of the exact
\* value, the first of them 1 with exponent e, and sticky tells whether
\* anything nonzero follows them
RoundNearestEven(bits, e, sticky) ==
    LET m == SubSeq(bits, 1, 53)
        rest == SubSeq(bits, 55, Len(bits))
        more == sticky \/ \E j \in 1..Len(rest) : rest[j] = 1
        up == bits[54] = 1 /\ (more \/ m[53] = 1)
        inc == Inc(m)
    IN IF ~up THEN [m |-> m, e |-> e]
       ELSE IF Len(inc) = 53 THEN [m |-> inc, e |-> e]
       ELSE [m |-> SubSeq(inc, 1, 53), e |-> e + 1]

\* the first 54 significant bits of r / d continued after the bits sig
\* (0 <= r < d), where e is the exponent of the first bit of sig, or of the
\* next bit when sig is empty
RECURSIVE Expand(_, _, _, _)
Expand(sig, e, r, d) ==
    IF Len(sig) >= 54 THEN [sig |-> sig, e |-> e, sticky |-> r # 0]
    ELSE LET b == IF 2 * r >= d THEN 1 ELSE 0
         IN IF sig = <<>> /\ b = 0 THEN Expand(sig, e - 1, 2 * r - b * d, d)
            ELSE Expand(Append(sig, b), e, 2 * r - b * d, d)

\* the double nearest to n / d
FloatOfRatio(n, d) ==
    IF n = 0 THEN Zero
    ELSE LET whole == NatBits(n \div d)
             x == Expand(whole, IF whole = <<>> THEN -1 ELSE Len(whole) - 1, n % d, d)
         IN RoundNearestEven(x.sig, x.e, x.sticky)

\* the bits of bits * c, from position j down to the first bit
RECURSIVE MulBits(_, _, _, _, _)
MulBits(bits, j, c, carry, acc) ==
    IF j = 0 THEN NatBits(carry) \o acc
    ELSE MulBits(bits, j - 1, c, (bits[j] * c + carry) \div 2,
                 <<(bits[j] * c + carry) % 2>> \o acc)

\* x * c for a natural number c > 1: the exact product, rounded
FloatTimes(x, c) ==
    IF x = Zero THEN Zero
    ELSE LET product == MulBits(x.m, 53, c, 0, <<>>)
         IN RoundNearestEven(product \o <<0>>, x.e + Len(product) - 53, FALSE)

\* int(x) for x >= 0: the bits left of the binary point
IntOfFloat(x) ==
    IF x = Zero \/ x.e < 0 THEN 0 ELSE BitsNat(SubSeq(x.m, 1, x.e + 1))

(***************************************************************************)
(* The engagement counts of _get_post_details.  The page source is a       *)
(* sequence of characters and of the keywords the patterns look for.       *)
(***************************************************************************)
\* the characters of the numeric texts of a page
CountChars == {"1", "2", "4", ",", ".", "K"}

\* numeric texts of the usual shapes
CountExamples ==
    {<<"1", ",", "2", "3", "4">>, <<"2", ".", "5", "K">>, <<"3", "M">>}

\* counts in millions, of up to three digits and points
Millions == {num \o <<"m">> : num \in UNION {[1..m -> {"1", "4", "."}] : m \in 1..3}}

\* the numeric texts of at most n characters, the usual shapes and the
\* millions
CountTexts(n) ==
    UNION {[1..m -> CountChars] : m \in 0..n} \cup CountExamples \cup Millions

\* the pages that show a numeric text: before likes, after liked by, and
\* before comments
CountPages(num) ==
    {num \o <<" ", "likes">>, <<"liked by", " ">> \o num, num \o <<" ", "comments">>}

IsDigit(c) == c \in {"0", "1", "2", "3", "4", "5", "6", "7", "8", "9"}

DigitVal(c) ==
    CASE c = "0" -> 0 [] c = "1" -> 1 [] c = "2" -> 2 [] c = "3" -> 3 [] c = "4" -> 4
      [] c = "5" -> 5 [] c = "6" -> 6 [] c = "7" -> 7 [] c = "8" -> 8 [] c = "9" -> 9

\* the last index of the longest run of digits that starts at j
RECURSIVE DigitRun(_, _)
DigitRun(text, j) ==
    IF j <= Len(text) /\ IsDigit(text[j]) THEN DigitRun(text, j + 1) ELSE j - 1

\* the last index of the longest run of whitespace that starts at j
RECURSIVE SpaceRun(_, _)
SpaceRun(text, j) ==
    IF j <= Len(text) /\ text[j] = " " THEN SpaceRun(text, j + 1) ELSE j - 1

\* where \d+[seps]?\d*[suffixes]? ends when it starts at j; 0 when text[j]
\* is no digit
NumberEnd(text, j, seps, suffixes) ==
    LET a == DigitRun(text, j)
        b == IF a < Len(text) /\ text[a + 1] \in seps THEN a + 1 ELSE a
        c == DigitRun(text, b + 1)
    IN IF a < j THEN 0
       ELSE IF c < Len(text) /\ text[c + 1] \in suffixes THEN c + 1 ELSE c

\* the group of the match of pattern pat that starts at j, <<>> when no
\* match starts there.  pat.pre: the keywords, followed by whitespace,
\* that start the pattern; pat.post: the keywords that end it after
\* whitespace ({}: the number starts or ends the pattern).
Group(text, j, pat) ==
    LET g == IF pat.pre = {} THEN j
             ELSE IF text[j] \in pat.pre /\ SpaceRun(text, j + 1) > j
                  THEN SpaceRun(text, j + 1) + 1
                  ELSE 0
        e == IF g = 0 \/ g > Len(text) THEN 0
             ELSE NumberEnd(text, g, pat.seps, pat.suffixes)
        sp == SpaceRun(text, e + 1)
    IN IF e = 0 THEN <<>>
       ELSE IF pat.post = {} THEN SubSeq(text, g, e)
       ELSE IF sp > e /\ sp < Len(text) /\ text[sp + 1] \in pat.post
            THEN SubSeq(text, g, e)
            ELSE <<>>

\* re.findall(pattern, text)[0]: the group of the leftmost match, <<>> when
\* findall returns the empty list
FirstMatch(text, pat) ==
    LET starts == {j \in 1..Len(text) : Group(text, j, pat) # <<>>}
    IN IF starts = {} THEN <<>>
       ELSE Group(text, CHOOSE j \in starts : \A o \in starts : j <= o, pat)

\* likes_patterns; the page source is lowercased before they are applied
likes_patterns ==
    <<[pre |-> {}, post |-> {"likes"}, seps |-> {",", "."}, suffixes |-> {"K", "k", "M", "m"}],
      [pre |-> {"liked by"}, post |-> {}, seps |-> {",", "."}, suffixes |-> {"K", "k", "M", "m"}],
      [pre |-> {}, post |-> {"like this"}, seps |-> {",", "."}, suffixes |-> {"K", "k", "M", "m"}],
      [pre |-> {}, post |-> {"views"}, seps |-> {",", "."}, suffixes |-> {"K", "k", "M", "m"}]>>

\* comments_patterns; the last one also matches before comments
comments_patterns ==
    <<[pre |-> {}, post |-> {"comments"}, seps |-> {","}, suffixes |-> {}],
      [pre |-> {"view all"}, post |-> {"comments"}, seps |-> {","}, suffixes |-> {}],
      [pre |-> {}, post |-> {"comment", "comments"}, seps |-> {","}, suffixes |-> {}]>>

\* the group of the first pattern, from pattern n on, that matches
RECURSIVE FirstPattern(_, _, _)
FirstPattern(text, patterns, n) ==
    IF n > Len(patterns) THEN <<>>
    ELSE IF FirstMatch(text, patterns[n]) # <<>> THEN FirstMatch(text, patterns[n])
    ELSE FirstPattern(text, patterns, n + 1)

\* str.replace(c, '')
Remove(text, c) == SelectSeq(text, LAMBDA x : x # c)

\* the natural number a sequence of digits writes
RECURSIVE NatOfDigits(_)
NatOfDigits(digits) ==
    IF digits = <<>> THEN 0
    ELSE 10 * NatOfDigits(SubSeq(digits, 1, Len(digits) - 1)) + DigitVal(digits[Len(digits)])

RECURSIVE Pow10(_)
Pow10(n) == IF n = 0 THEN 1 ELSE 10 * Pow10(n - 1)

\* float(text) for digits with at most one point
float(text) ==
    LET point == IndexFrom(text, ".", 1)
        decimals == IF point = 0 THEN 0 ELSE Len(text) - point
    IN FloatOfRatio(NatOfDigits(Remove(text, ".")), Pow10(decimals))

\* the count of a matched likes text: the commas go, a k or an m gives the
\* magnitude, and int() cuts the float
LikesCount(matched) ==
    LET likes_text == str_lower(Remove(matched, ","))
    IN IF "k" \in Range(likes_text)
       THEN IntOfFloat(FloatTimes(float(Remove(likes_text, "k")), 1000))
       ELSE IF "m" \in Range(likes_text)
       THEN IntOfFloat(FloatTimes(float(Remove(likes_text, "m")), 1000000))
       ELSE IntOfFloat(float(likes_text))

\* the count of a matched comments text: int() of its digits
CommentsCount(matched) == NatOfDigits(Remove(matched, ","))

\* a visit of a post page whose source is a numeric text and a keyword
InitCounts ==
    /\ NoRun
    /\ env = [token |-> FALSE, chat_id |-> FALSE]
    /\ call \in [fn : {"counts"},
                  page_source : UNION {CountPages(num) : num \in CountTexts(MaxNum)},
                  done : {FALSE},
                  likes_text : {<<>>},
                  likes_count : {0},
                  comments_text : {<<>>},
                  comments_count : {0}]

\* the likes and the comments blocks of _get_post_details: the counts keep
\* their default 0 when no pattern matches
GetCounts ==
    /\ call.fn = "counts"
    /\ ~call.done
    /\ LET page_source_lower == str_lower(call.page_source)
           likes == FirstPattern(page_source_lower, likes_patterns, 1)
           comments == FirstPattern(page_source_lower, comments_patterns, 1)
       IN call' = [call EXCEPT !.done = TRUE,
                               !.likes_text = likes,
                               !.likes_count = IF likes = <<>> THEN 0 ELSE LikesCount(likes),
                               !.comments_text = comments,
                               !.comments_count = IF comments = <<>> THEN 0
                                                  ELSE CommentsCount(comments)]
    /\ UNCHANGED <<store, clock, env, run, delivered, marks>>

NextCounts == GetCounts

SpecCounts == InitCounts /\ [][NextCounts]_vars

(***************************************************************************)
(* The caption block of _get_post_details.  A query of the page raises,    *)
(* finds no element, or finds elements of which the first has a text.      *)
(***************************************************************************)
caption_selectors ==
    <<"div._a9zr span", "div.C4VMK span", "article div:nth-child(3) span",
      "h1 + div span", "article span">>

\* what a query for selector can give: an exception, no element, a first
\* element without text, and a first element whose text names the selector
Queries(selector) ==
    {[raises |-> TRUE, elements |-> <<>>],
     [raises |-> FALSE, elements |-> <<>>],
     [raises |-> FALSE, elements |-> <<"">>],
     [raises |-> FALSE, elements |-> <<selector>>]}

\* the pages: a query result for every selector and for the article, and
\* the groups of the og:description pattern, whose content is never empty
CaptionPages ==
    [find : {f \in [Range(caption_selectors) -> UNION {Queries(x) : x \in Range(caption_selectors)}] :
                \A x \in Range(caption_selectors) : f[x] \in Queries(x)},
     article : Queries("article"),
     meta : {<<>>, <<"meta">>}]

\* the loop over caption_selectors from selector n on: an exception moves
\* on to the next selector, found elements set the caption and end the loop
RECURSIVE SelectorLoop(_, _)
SelectorLoop(page, n) ==
    IF n > Len(caption_selectors) THEN ""
    ELSE LET caption_elements == page.find[caption_selectors[n]]
         IN IF caption_elements.raises THEN SelectorLoop(page, n + 1)
            ELSE IF caption_elements.elements # <<>> THEN caption_elements.elements[1]
            ELSE SelectorLoop(page, n + 1)

\* the caption after the article fallback; an exception of the article
\* query ends the caption block
ArticleFallback(page, caption) ==
    IF caption # "" \/ page.article.raises \/ page.article.elements = <<>> THEN caption
    ELSE page.article.elements[1]

\* the caption after the meta description fallback
MetaFallback(page, caption) ==
    IF caption # "" \/ page.article.raises \/ page.meta = <<>> THEN caption
    ELSE page.meta[1]

\* post_data["caption"] after the caption block
Caption(page) ==
    MetaFallback(page, ArticleFallback(page, SelectorLoop(page, 1)))

InitCaption ==
    /\ NoRun
    /\ env = [token |-> FALSE, chat_id |-> FALSE]
    /\ call \in [fn : {"caption"}, page : CaptionPages, done : {FALSE}, ret : {""}]

\* the caption block runs
GetCaption ==
    /\ call.fn = "caption"
    /\ ~call.done
    /\ call' = [call EXCEPT !.done = TRUE, !.ret = Caption(call.page)]
    /\ UNCHANGED <<store, clock, env, run, delivered, marks>>

NextCaption == GetCaption

SpecCaption == InitCaption /\ [][NextCaption]_vars

(***************************************************************************)
(* Properties.                                                             *)
(***************************************************************************)
\* the row of the table with this id
Row(db, id) == CHOOSE p \in db : p.id = id

Stored(db, id) == \E p \in db : p.id = id

\* the posts of the notifier loop that are still to be processed
Pending(rec) == {rec.sel[j] : j \in rec.i..Len(rec.sel)}

\* the posts of the notifier loop that have been processed
Processed(rec) == {rec.sel[j] : j \in 1..Min(rec.i - 1, Len(rec.sel))}

Notifying(rec) == rec.pc \in {"send", "mark"}

\* C1: in every reachable state of the store, also when two runs overlap,
\* no two rows have the same shortcode.
C1_OneRecordPerShortcode ==
    \A p, q \in store : p.shortcode = q.shortcode => p = q

\* C1 witness: a run found no row for its shortcode, the other run inserted
\* one in between, and the first run is about to insert its own.
C1_Witness ==
    \E r \in Runs :
        /\ run[r].pc = "write"
        /\ run[r].existing = {}
        /\ IntegrityError(store, {}, run[r].posts[run[r].k])

\* C2: notified is monotonic: a row that is notified is still there and
\* still notified after every step (reconcile or notifier).
C2_NotifiedMonotonic ==
    [][\A p \in store : p.notified =>
          \E q \in store' : q.id = p.id /\ q.notified]_vars

\* C2 witness: the reconcile loop has just updated a row that an earlier
\* run had marked notified.
C2_Witness ==
    \E r \in Runs :
        /\ run[r].pc = "reconcile"
        /\ run[r].k > 1
        /\ run[r].existing # {}
        /\ \E p \in store : p.id = run[r].posts[run[r].k - 1].id /\ p.notified

\* C3: during a notifier run every selected post has has_target_hashtag,
\* the posts still to be processed are not notified, and a processed post is
\* notified exactly when this run marked it: only posts that were eligible
\* at selection time are selected, delivered or marked.
C3_SelectsOnlyEligible ==
    \A r \in Runs :
        /\ \A id \in Range(run[r].sel) :
              Stored(store, id) /\ Row(store, id).has_target_hashtag
        /\ Notifying(run[r]) => \A id \in Pending(run[r]) : ~Row(store, id).notified
        /\ \A id \in Processed(run[r]) :
              Row(store, id).notified <=> id \in Range(run[r].notified_posts)
        /\ run[r].sent \cup run[r].failed \subseteq Range(run[r].sel)
        /\ Range(run[r].notified_posts) \subseteq run[r].sent

\* C3 witness: the store holds a row without the hashtag and an eligible
\* row, and the notifier selected the eligible one alone.
C3_Witness ==
    \E r \in Runs :
        /\ run[r].pc = "send"
        /\ \E p \in store : ~p.has_target_hashtag /\ ~p.notified
        /\ Len(run[r].sel) = 1

\* C4: across serialized runs a row is marked notified at most once, and a
\* row that was marked is never among the posts a notifier run still has to
\* process, also after it was extracted again with the hashtag.
C4_MarkedAtMostOnce ==
    /\ \A id \in DOMAIN marks : marks[id] <= 1
    /\ \A r \in Runs : \A id \in Pending(run[r]) : marks[id] = 0

\* C4 witness: a row that was marked was extracted again with the hashtag in
\* this run, and the notifier of this run selected another row, not this one.
C4_Witness ==
    \E r \in Runs :
        /\ run[r].pc = "send"
        /\ \E p \in store :
              /\ marks[p.id] = 1
              /\ p.has_target_hashtag
              /\ \E j \in 1..Len(run[r].posts) :
                    run[r].posts[j].id = p.id /\ run[r].posts[j].has_target_hashtag
              /\ p.id \notin Range(run[r].sel)

\* C5: across serialized runs the channel delivers at most one message for
\* any given post, also when a delivery or the write that marks the row
\* fails.
C5_DeliveredAtMostOnce ==
    \A id \in DOMAIN delivered : delivered[id] <= 1

\* C5 witness: a message was delivered, the write that marks the row failed,
\* and the run went on.
C5_Witness ==
    \E r \in Runs :
        /\ run[r].pc = "done"
        /\ \E id \in run[r].sent : id \notin Range(run[r].notified_posts)

\* the reconcile loop of the task over posts, every write committing
RECURSIVE Reconcile(_, _, _)
Reconcile(db, posts, now) ==
    IF posts = <<>> THEN db
    ELSE LET post_data == Head(posts)
             existing_post == get_post_by_shortcode(db, post_data.shortcode)
         IN Reconcile(IF IntegrityError(db, existing_post, post_data) THEN db
                      ELSE Upsert(db, existing_post, post_data, now),
                      Tail(posts), now)

\* the same extraction made again at time t
Restamp(posts, t) == [j \in 1..Len(posts) |-> [posts[j] EXCEPT !.scraped_at = t]]

\* a row without the timestamps scraped_at and updated_at
Content(p) ==
    [id |-> p.id, shortcode |-> p.shortcode, caption |-> p.caption,
     likes_count |-> p.likes_count, comments_count |-> p.comments_count,
     url |-> p.url, has_target_hashtag |-> p.has_target_hashtag,
     notified |-> p.notified, created_at |-> p.created_at]

\* C6: when a run has reconciled its extracted records, reconciling the
\* same records once more, at that or any later time, gives a table with
\* the same number of rows, whose rows differ from the stored ones in
\* scraped_at and updated_at at most.
C6_ReconcileIdempotent ==
    \A r \in Runs :
        (run[r].pc = "reconcile" /\ run[r].k > Len(run[r].posts)) =>
            \A t \in clock..MaxClock :
                LET again == Reconcile(store, Restamp(run[r].posts, t), t)
                IN /\ Cardinality(again) = Cardinality(store)
                   /\ {Content(p) : p \in again} = {Content(p) : p \in store}

\* C6 witness: a run has reconciled two records, one of them with counts
\* and a row that is notified, and the clock can still advance.
C6_Witness ==
    \E r \in Runs :
        /\ run[r].pc = "reconcile"
        /\ run[r].k > Len(run[r].posts)
        /\ Len(run[r].posts) = 2
        /\ clock < MaxClock
        /\ \E p \in store : /\ p.notified
                            /\ p.likes_count > 0
                            /\ p.id = run[r].posts[1].id

\* C7: a reconcile step that updates an existing row gives it the incoming
\* caption, likes_count, comments_count, url, has_target_hashtag and
\* scraped_at, keeps its shortcode, id, created_at and notified, and leaves
\* every other row as it was.
C7_UpdateFrame ==
    [][\A r \in Runs :
          (run[r].pc = "write" /\ run[r].existing # {} /\ run'[r].pc = "reconcile") =>
              LET d == run[r].posts[run[r].k]
                  old == Row(store, CHOOSE id \in run[r].existing : TRUE)
              IN \E new \in store' :
                    /\ new.caption = d.caption
                    /\ new.likes_count = d.likes_count
                    /\ new.comments_count = d.comments_count
                    /\ new.url = d.url
                    /\ new.has_target_hashtag = d.has_target_hashtag
                    /\ new.scraped_at = d.scraped_at
                    /\ new.shortcode = old.shortcode
                    /\ new.id = old.id
                    /\ new.created_at = old.created_at
                    /\ new.notified = old.notified
                    /\ store' \ {new} = store \ {old}]_vars

\* C7 witness: the reconcile loop has just updated a notified row under
\* another URL and cleared its has_target_hashtag.
C7_Witness ==
    \E r \in Runs :
        /\ run[r].pc = "reconcile"
        /\ run[r].k > 1
        /\ run[r].existing # {}
        /\ \E p \in store : /\ p.id = run[r].posts[run[r].k - 1].id
                            /\ p.notified
                            /\ ~p.has_target_hashtag
                            /\ p.url = UrlA2
                            /\ p.created_at < p.scraped_at

\* C8: a reconcile step for a shortcode that is not stored adds exactly one
\* row, with every field as extracted and notified false.
C8_CreateInserts ==
    [][\A r \in Runs :
          (run[r].pc = "write" /\ run[r].existing = {} /\ run'[r].pc = "reconcile") =>
              LET d == run[r].posts[run[r].k]
              IN \E new \in store' \ store :
                    /\ store' = store \cup {new}
                    /\ Cardinality(store') = Cardinality(store) + 1
                    /\ new.id = d.id
                    /\ new.shortcode = d.shortcode
                    /\ new.caption = d.caption
                    /\ new.likes_count = d.likes_count
                    /\ new.comments_count = d.comments_count
                    /\ new.url = d.url
                    /\ new.has_target_hashtag = d.has_target_hashtag
                    /\ new.scraped_at = d.scraped_at
                    /\ new.notified = FALSE]_vars

\* C8 witness: the reconcile loop has just created the row of a post with a
\* target hashtag, next to a row that was there, and the new row is not
\* notified.
C8_Witness ==
    \E r \in Runs :
        /\ run[r].pc = "reconcile"
        /\ run[r].k > 1
        /\ run[r].existing = {}
        /\ Cardinality(store) = 2
        /\ \E p \in store : /\ p.id = run[r].posts[run[r].k - 1].id
                            /\ p.has_target_hashtag
                            /\ ~p.notified

\* C9: a post whose delivery failed in a notifier run is not marked and is
\* still eligible, and when the run completes every selected post has had
\* its delivery attempted.
C9_DeliveryFailureIsLocal ==
    \A r \in Runs :
        /\ \A id \in run[r].failed :
              /\ id \notin Range(run[r].notified_posts)
              /\ Stored(store, id)
              /\ Row(store, id).has_target_hashtag
              /\ ~Row(store, id).notified
        /\ (run[r].pc = "done" /\ run[r].outcome = "completed") =>
              run[r].sent \cup run[r].failed = Range(run[r].sel)

\* C9 witness: a notifier run is complete in which the delivery of the
\* first post failed and the second post was delivered and marked.
C9_Witness ==
    \E r \in Runs :
        /\ run[r].pc = "done"
        /\ Len(run[r].sel) = 2
        /\ run[r].sel[1] \in run[r].failed
        /\ run[r].notified_posts = <<run[r].sel[2]>>
        /\ Row(store, run[r].sel[2]).notified

\* C10: with the token or the chat id absent no delivery is attempted, no
\* row is marked, no run is in the notifier loop or has a result, a run
\* fails in its reconcile loop only, and a completed run has stored the
\* records it extracted.
C10_UnconfiguredIsNoOp ==
    ~(env.token /\ env.chat_id) =>
        /\ \A id \in DOMAIN delivered : delivered[id] = 0 /\ marks[id] = 0
        /\ \A p \in store : ~p.notified
        /\ \A r \in Runs :
              /\ ~Notifying(run[r])
              /\ run[r].sel = <<>>
              /\ run[r].notified_posts = <<>>
              /\ run[r].sent = {} /\ run[r].failed = {}
              /\ run[r].outcome = "error" => run[r].k <= Len(run[r].posts)
              /\ (run[r].pc = "done" /\ run[r].outcome = "completed") =>
                    \A j \in 1..Len(run[r].posts) :
                        \E p \in store : /\ p.id = run[r].posts[j].id
                                         /\ p.scraped_at = run[r].posts[j].scraped_at

\* C10 witness: with the chat id absent a run has completed and its
\* reconciliation has stored an eligible row.
C10_Witness ==
    \E r \in Runs :
        /\ env.token /\ ~env.chat_id
        /\ run[r].pc = "done"
        /\ run[r].outcome = "completed"
        /\ Len(run[r].posts) > 0
        /\ \E p \in store : /\ p.has_target_hashtag
                            /\ ~p.notified
                            /\ p.id = run[r].posts[1].id

\* the ids of the rows that have a target hashtag and are not notified
Eligible(db) == {p.id : p \in {q \in db : q.has_target_hashtag /\ ~q.notified}}

\* a create, update or mark write of this run failed
WriteFailed(rec) ==
    rec.outcome = "error" \/ rec.sent # Range(rec.notified_posts)

\* C11: a run in which a create, update or mark write failed does not
\* complete as a success: its caller gets the store-level error.
C11_StoreFailurePropagated ==
    \A r \in Runs :
        (run[r].pc = "done" /\ WriteFailed(run[r])) => Response(run[r]) = "error"

\* a row without notified and the timestamps that the writes refresh
Extracted(p) ==
    [id |-> p.id, shortcode |-> p.shortcode, caption |-> p.caption,
     likes_count |-> p.likes_count, comments_count |-> p.comments_count,
     url |-> p.url, has_target_hashtag |-> p.has_target_hashtag,
     scraped_at |-> p.scraped_at, created_at |-> p.created_at]

\* C12 as stated: no step of a run whose extraction returned the empty list
\* changes the store or delivers a message, and the run does not fail.
C12_EmptyRunIsNoOp ==
    [][\A r \in Runs :
          (run[r].pc # "idle" /\ run[r].posts = <<>>) =>
              /\ store' = store
              /\ delivered' = delivered
              /\ run'[r].outcome # "error"]_vars

\* C12 amended: a run whose extraction returned the empty list never fails
\* and never reaches a reconcile write, so no row is created and no
\* extracted field of a row changes; its notifier delivers and marks only
\* rows that were stored as eligible, and when no stored row is eligible or
\* the channel is unconfigured the store is unchanged and nothing is
\* delivered.
C12_EmptyRunReconcilesNothing ==
    [][\A r \in Runs :
          (run[r].pc # "idle" /\ run[r].posts = <<>>) =>
              /\ run'[r].pc # "write"
              /\ run'[r].outcome # "error"
              /\ Cardinality(store') = Cardinality(store)
              /\ {Extracted(p) : p \in store'} = {Extracted(p) : p \in store}
              /\ \A id \in DOMAIN delivered :
                    delivered'[id] # delivered[id] => id \in Eligible(store)
              /\ \A p \in store' \ store : p.notified /\ p.id \in Eligible(store)
              /\ (Eligible(store) = {} \/ ~(env.token /\ env.chat_id)) =>
                    (store' = store /\ delivered' = delivered)]_vars

\* C12 witness: a run whose extraction returned the empty list has completed
\* after its notifier delivered and marked a row that an earlier run stored.
C12_Witness ==
    \E r \in Runs :
        /\ run[r].pc = "done"
        /\ run[r].posts = <<>>
        /\ run[r].outcome = "completed"
        /\ Len(run[r].notified_posts) = 1
        /\ Row(store, run[r].notified_posts[1]).notified

\* C13: the reconcile write for a post whose page timed out adds no row and
\* leaves the caption, the counts and has_target_hashtag of the row stored
\* for its shortcode as they were.
C13_TimeoutSkipsPost ==
    [][\A r \in Runs :
          (run[r].pc = "write" /\ run[r].k \in run[r].stalled) =>
              /\ Cardinality(store') = Cardinality(store)
              /\ \A p \in store :
                    p.shortcode = run[r].posts[run[r].k].shortcode =>
                        \E q \in store' : /\ q.id = p.id
                                           /\ q.caption = p.caption
                                           /\ q.likes_count = p.likes_count
                                           /\ q.comments_count = p.comments_count
                                           /\ q.has_target_hashtag = p.has_target_hashtag]_vars

\* C13 witness: a run is about to write the defaults of a post whose page
\* timed out over a stored row that has a caption and the hashtag.
C13_Witness ==
    \E r \in Runs :
        /\ run[r].pc = "write"
        /\ run[r].k \in run[r].stalled
        /\ run[r].existing # {}
        /\ \E p \in store : /\ p.id \in run[r].existing
                            /\ p.has_target_hashtag
                            /\ p.likes_count > 0

\* two characters that differ in case at most
SameLetter(c, d) ==
    \/ c = d
    \/ <<c, d>> \in {<<"a", "A">>, <<"A", "a">>, <<"b", "B">>, <<"B", "b">>}

EqIgnoreCase(s, t) ==
    Len(s) = Len(t) /\ \A j \in 1..Len(s) : SameLetter(s[j], t[j])

\* sub occurs in text, ignoring case
OccursIn(sub, text) ==
    \E j \in 1..(Len(text) - Len(sub) + 1) :
        EqIgnoreCase(SubSeq(text, j, j + Len(sub) - 1), sub)

\* the hashtag occurs in the text ignoring case: as a #-token, as the
\* substring '#<hashtag>', or as a bare word between spaces or text ends
Occurs(hashtag, text) ==
    \/ \E j \in 1..Len(text) :
          /\ text[j] = "#"
          /\ WordRun(text, j + 1) > j
          /\ EqIgnoreCase(SubSeq(text, j + 1, WordRun(text, j + 1)), hashtag)
    \/ OccursIn(<<"#">> \o hashtag, text)
    \/ OccursIn(<<" ">> \o hashtag \o <<" ">>, <<" ">> \o text \o <<" ">>)

\* the text with the case of every letter changed
SwapCase(text) ==
    [j \in 1..Len(text) |->
        CASE text[j] = "a" -> "A"
          [] text[j] = "A" -> "a"
          [] text[j] = "b" -> "B"
          [] text[j] = "B" -> "b"
          [] OTHER -> text[j]]

\* C14: the result of the hashtag matcher is true exactly when a monitored
\* hashtag occurs in the text ignoring case (as a #-token, as the substring
\* '#<hashtag>' or as a bare word); it is false for None, for the empty
\* text and for a text in which no monitored hashtag occurs, whatever other
\* hashtags it has; and the matcher gives the same result for the text and
\* the hashtags in another case.
C14_MatcherIgnoresCase ==
    (call.fn = "contains_target_hashtag" /\ call.done) =>
        /\ call.ret = (/\ call.text # None
                       /\ \E hashtag \in call.hashtags : Occurs(hashtag, call.text))
        /\ call.text \in {None, <<>>} => ~call.ret
        /\ call.text # None =>
              \A other \in {SwapCase(call.text), str_lower(call.text),
                             SwapCase(str_lower(call.text))} :
                  \A tags \in {call.hashtags, {SwapCase(t) : t \in call.hashtags}} :
                      contains_target_hashtag(other, HashtagsToMonitor(tags)) = call.ret

\* C14 witness: the matcher found a hashtag that the text and the monitored
\* list write in different cases, in a text that has another hashtag too.
C14_Witness ==
    /\ call.fn = "contains_target_hashtag"
    /\ call.done
    /\ call.ret
    /\ call.text = <<"#", "b", "#", "A">>
    /\ call.hashtags = {<<"a">>}

\* C15 as stated: the monitored hashtags recovered by tokenizing the
\* lowercased text are exactly those whose '#<hashtag>' is a substring of it.
C15_TokensAgreeWithSubstring ==
    (call.fn = "contains_target_hashtag" /\ call.done) => call.tokens = call.literal

\* '#<hashtag>' stands in the text as a whole token: the hashtag is made of
\* word characters and no word character follows it
WholeToken(hashtag, text) ==
    /\ hashtag # <<>>
    /\ \A j \in 1..Len(hashtag) : IsWord(hashtag[j])
    /\ \E j \in 1..Len(text) :
          /\ text[j] = "#"
          /\ j + Len(hashtag) <= Len(text)
          /\ \A n \in 1..Len(hashtag) : SameLetter(text[j + n], hashtag[n])
          /\ (j + Len(hashtag) < Len(text)) => ~IsWord(text[j + Len(hashtag) + 1])

\* C15 amended: every monitored hashtag that tokenizing recovers has its
\* '#<hashtag>' as a substring of the lowercased text, and a hashtag whose
\* '#<hashtag>' is a substring is recovered by tokenizing exactly when it
\* stands there as a whole token.
C15_TokensImplySubstring ==
    (call.fn = "contains_target_hashtag" /\ call.done) =>
        /\ call.tokens \subseteq call.literal
        /\ \A hashtag \in call.literal :
              hashtag \in call.tokens <=> WholeToken(hashtag, call.text)

\* C15 witness: the text is '#ab' and both a and ab are monitored: both are
\* substrings after the '#', and tokenizing recovers ab alone.
C15_Witness ==
    /\ call.fn = "contains_target_hashtag"
    /\ call.done
    /\ call.text = <<"#", "a", "b">>
    /\ call.tokens = {<<"a", "b">>}
    /\ call.literal = {<<"a">>, <<"a", "b">>}

\* the count a numeric text writes: the thousands separators go, and a
\* trailing k or m multiplies what is left by 1,000 or 1,000,000
ExactCount(matched) ==
    LET plain == str_lower(Remove(matched, ","))
        power == IF "k" \in Range(plain) THEN 3 ELSE IF "m" \in Range(plain) THEN 6 ELSE 0
        number == Remove(Remove(plain, "k"), "m")
        point == IndexFrom(number, ".", 1)
        decimals == IF point = 0 THEN 0 ELSE Len(number) - point
        digits == NatOfDigits(Remove(number, "."))
    IN IF decimals <= power THEN digits * Pow10(power - decimals)
       ELSE digits \div Pow10(decimals - power)

\* C16: the likes and the comments count of a page are never negative, are
\* 0 when no pattern matches, and otherwise are the integer that the
\* matched numeric text writes once the thousands separators are stripped
\* and a trailing K or M is applied as 1,000 or 1,000,000.
C16_CountsNormalized ==
    (call.fn = "counts" /\ call.done) =>
        /\ call.likes_count >= 0
        /\ call.comments_count >= 0
        /\ call.likes_count = IF call.likes_text = <<>> THEN 0
                               ELSE ExactCount(call.likes_text)
        /\ call.comments_count = IF call.comments_text = <<>> THEN 0
                                  ELSE ExactCount(call.comments_text)

\* C16 witness: the page says 4.1m likes and the count is one less than
\* 4,100,000.
C16_Witness ==
    /\ call.fn = "counts"
    /\ call.done
    /\ call.likes_text = <<"4", ".", "1", "m">>
    /\ call.likes_count = 4099999

\* the distinct hrefs in the order in which the page shows them first
Discovered(hrefs) ==
    LET firsts == {j \in 1..Len(hrefs) : \A o \in 1..(j - 1) : hrefs[o] # hrefs[j]}
        nth(n) == CHOOSE j \in firsts : Cardinality({o \in firsts : o <= j}) = n
    IN [n \in 1..Cardinality(firsts) |-> hrefs[nth(n)]]

\* C17: scrape_posts returns one record for each of the first max_posts
\* distinct discovered URLs, in discovery order: at most max_posts records,
\* no two of them for the same URL, and none for a URL while an earlier
\* discovered one has none.
C17_FirstMaxPostsInOrder ==
    (call.fn = "scrape_posts" /\ call.done) =>
        LET urls == [j \in 1..Len(call.ret) |-> call.ret[j].url]
            found == Discovered(call.hrefs)
        IN /\ Len(urls) <= MaxPosts
           /\ \A j, o \in 1..Len(urls) : urls[j] = urls[o] => j = o
           /\ Len(urls) = Min(MaxPosts, Len(found))
           /\ \A j \in 1..Len(urls) : urls[j] = found[j]

\* C17 witness: the page shows an anchor twice and more distinct URLs than
\* max_posts, and the records are those of the first max_posts of them.
C17_Witness ==
    /\ call.fn = "scrape_posts"
    /\ call.done
    /\ Len(call.ret) = MaxPosts
    /\ Cardinality(Range(call.hrefs)) > MaxPosts
    /\ Len(call.hrefs) > Cardinality(Range(call.hrefs))
    /\ call.hrefs[1] = call.hrefs[2]

\* what a strategy yields: the text of the first element it finds, nothing
\* ("") when it finds none or fails
Yield(query) == IF query.raises \/ query.elements = <<>> THEN "" ELSE query.elements[1]

\* the results of the strategy chain in order: the selectors, the article,
\* the meta description
Chain(page) ==
    [n \in 1..Len(caption_selectors) |-> Yield(page.find[caption_selectors[n]])]
        \o <<Yield(page.article), IF page.meta = <<>> THEN "" ELSE page.meta[1]>>

\* C18: the caption is the first non-empty result of the strategy chain,
\* and so it is empty only when every strategy yields nothing.
C18_FirstNonEmptyWins ==
    (call.fn = "caption" /\ call.done) =>
        LET chain == Chain(call.page)
            full == {n \in 1..Len(chain) : chain[n] # ""}
        IN call.ret = IF full = {} THEN ""
                       ELSE chain[CHOOSE n \in full : \A o \in full : n <= o]

\* C18 witness: the first selector finds an element without text, the
\* second selector would find the caption, and the caption is the text of
\* the article.
C18_Witness ==
    /\ call.fn = "caption"
    /\ call.done
    /\ call.page.find[caption_selectors[1]].elements = <<"">>
    /\ call.page.find[caption_selectors[2]].elements = <<caption_selectors[2]>>
    /\ call.ret = "article"

\* C19: a run makes no delivery attempt while it reconciles, its notifier
\* runs when every extracted record has been written, and with the channel
\* configured every row of an extracted record that is eligible after the
\* reconciliation is among the rows the notifier of the same run selected.
C19_ReconcileBeforeNotify ==
    \A r \in Runs :
        /\ run[r].pc \in {"reconcile", "write"} =>
              /\ run[r].sel = <<>>
              /\ run[r].sent = {} /\ run[r].failed = {}
              /\ run[r].notified_posts = <<>>
        /\ (Notifying(run[r]) \/ (run[r].pc = "done" /\ run[r].outcome = "completed")) =>
              /\ run[r].k > Len(run[r].posts)
              /\ \A j \in 1..Len(run[r].posts) :
                    /\ Stored(store, run[r].posts[j].id)
                    /\ (/\ env.token /\ env.chat_id
                        /\ Row(store, run[r].posts[j].id).has_target_hashtag
                        /\ ~Row(store, run[r].posts[j].id).notified)
                           => run[r].posts[j].id \in Range(run[r].sel)

\* C19 witness: the notifier of a run is about to deliver the first of two
\* rows, one that the reconciliation of this run created from a record with
\* the hashtag and one of an earlier run.
C19_Witness ==
    \E r \in Runs :
        /\ run[r].pc = "send"
        /\ run[r].i = 1
        /\ Len(run[r].sel) = 2
        /\ Len(run[r].posts) = 1
        /\ run[r].posts[1].has_target_hashtag
        /\ run[r].posts[1].id \in Range(run[r].sel)
        /\ Row(store, run[r].posts[1].id).created_at = clock
        /\ clock > 0

\* C20: when a notifier run attempts a delivery, every record it delivered
\* before is marked notified in the store, and so at every point of the run
\* at most one record is delivered and not marked.
C20_MarkedBeforeNext ==
    \A r \in Runs :
        /\ run[r].pc = "send" =>
              \A id \in run[r].sent : Row(store, id).notified
        /\ Cardinality({id \in run[r].sent : ~Row(store, id).notified}) <= 1

\* C20 witness: the notifier is about to deliver its second record while
\* the first one, which it delivered, is not marked.
C20_Witness ==
    \E r \in Runs :
        /\ run[r].pc = "send"
        /\ run[r].i = 2
        /\ run[r].sel[1] \in run[r].sent
        /\ ~Row(store, run[r].sel[1]).notified

\* the last record among the first n of posts that has the shortcode of
\* record j
LastOf(posts, j, n) ==
    posts[CHOOSE o \in j..n : /\ posts[o].shortcode = posts[j].shortcode
                              /\ \A q \in (o + 1)..n :
                                    posts[q].shortcode # posts[j].shortcode]

\* C21: when the write for a record of a run has failed and ended the run,
\* every earlier record of the run is in the store with the values the run
\* extracted for it.
C21_EarlierWritesStay ==
    \A r \in Runs :
        (run[r].pc = "done" /\ run[r].outcome = "error") =>
            \A j \in 1..(run[r].k - 1) :
                \E p \in store :
                    LET d == LastOf(run[r].posts, j, run[r].k - 1)
                    IN /\ p.id = d.id
                       /\ p.shortcode = d.shortcode
                       /\ p.caption = d.caption
                       /\ p.likes_count = d.likes_count
                       /\ p.comments_count = d.comments_count
                       /\ p.url = d.url
                       /\ p.has_target_hashtag = d.has_target_hashtag
                       /\ p.scraped_at = d.scraped_at

\* C21 witness: the write for the second record of a run failed after the
\* write for the first one had updated a row of an earlier run.
C21_Witness ==
    \E r \in Runs :
        /\ run[r].pc = "done"
        /\ run[r].outcome = "error"
        /\ run[r].k = 2
        /\ Len(run[r].posts) = 2
        /\ \E p \in store : /\ p.id = run[r].posts[1].id
                            /\ p.created_at < p.scraped_at
                            /\ p.has_target_hashtag

\* C22: no step of a run deletes a row or changes its identity: every row
\* keeps its shortcode, its id and its created_at, and the id of every row
\* is "post_" followed by its shortcode.
C22_IdentityKept ==
    [][/\ \A p \in store :
            \E q \in store' : /\ q.shortcode = p.shortcode
                              /\ q.id = p.id
                              /\ q.created_at = p.created_at
       /\ \A q \in store' : q.id = PostId(q.shortcode)]_vars

\* C22 witness: two rows are stored, and a completed run has updated one of
\* them, inserted by an earlier run, after the clock moved on.
C22_Witness ==
    \E p, q \in store :
        /\ p.shortcode # q.shortcode
        /\ p.created_at < p.updated_at
        /\ p.created_at < p.scraped_at
        /\ p.url = UrlA
        /\ \E r \in Runs : run[r].pc = "done" /\ run[r].outcome = "completed"

\* C24: nothing excludes a run from the rows another run is notifying: the
\* notifier of a run selects every eligible row of the store, also the rows
\* that an overlapping run has selected and not yet marked, and ends at once
\* only when the channel is unconfigured or no row is eligible.
C24_NoMutualExclusion ==
    [][\A r \in Runs :
          (run[r].pc = "reconcile" /\ run'[r].pc \in {"send", "done"}) =>
              IF run'[r].pc = "send"
              THEN Range(run'[r].sel) = Eligible(store)
              ELSE ~(env.token /\ env.chat_id) \/ Eligible(store) = {}]_vars

\* C24 witness: two overlapping runs have both selected the same row before
\* either marked it, both delivered it and both marked it, no delivery and
\* no write having failed.
C24_Witness ==
    \E p \in store :
        /\ delivered[p.id] = 2
        /\ marks[p.id] = 2
        /\ \A r \in Runs :
              /\ run[r].pc = "done"
              /\ run[r].outcome = "completed"
              /\ run[r].sent = {p.id}
              /\ run[r].notified_posts = <<p.id>>
              /\ run[r].failed = {}

\* the ids of the posts of the profile pages
Ids == {PostId(Shortcode(u)) : u \in Urls}

\* the write for record k of a run commits
WriteOk(r, k) == Write(r) /\ run[r].k = k /\ run'[r].pc = "reconcile"

\* the delivery of post id succeeds
DeliverOk(r, id) == Send(r) /\ run[r].sel[run[r].i] = id /\ run'[r].pc = "mark"

\* the mark write for post id commits
MarkOk(r, id) ==
    /\ Mark(r)
    /\ run[r].sel[run[r].i] = id
    /\ Len(run'[r].notified_posts) > Len(run[r].notified_posts)

\* the extraction of the running task yields has_target_hashtag for post id
KeepsTagged(id) ==
    \A j \in 1..Len(run["beat"].posts) :
        run["beat"].posts[j].id = id => run["beat"].posts[j].has_target_hashtag

Configured == env.token /\ env.chat_id

Notified(id) == \E p \in store : p.id = id /\ p.notified

\* C23 as stated: when runs keep being invoked with a configured channel,
\* every extraction of a post yields has_target_hashtag and its delivery,
\* attempted again and again, eventually succeeds, a stored row of the post
\* eventually is notified.
C23_EventuallyNotified ==
    \A id \in Ids :
        ([]KeepsTagged(id) /\ []Configured /\ SF_vars(DeliverOk("beat", id)))
            => (Stored(store, id) ~> Notified(id))

\* C23, amended: the same, when moreover the store writes, attempted again
\* and again, eventually commit: the write for each record of a run and the
\* mark write for the post.
C23_EventuallyNotifiedIfStoreCommits ==
    \A id \in Ids :
        ([]KeepsTagged(id) /\ []Configured /\ SF_vars(DeliverOk("beat", id))
            /\ SF_vars(MarkOk("beat", id))
            /\ \A k \in 1..MaxPosts : SF_vars(WriteOk("beat", k)))
            => (Stored(store, id) ~> Notified(id))

\* C23 witness: a run has marked a row that an earlier run inserted and this
\* run scraped again, after the delivery for another row failed in it.
C23_Witness ==
    \E r \in Runs, p \in store :
        /\ run[r].pc = "done"
        /\ p.id \in Range(run[r].notified_posts)
        /\ p.notified
        /\ p.created_at < p.scraped_at
        /\ run[r].failed # {}

====
